---- MODULE Spec2Model ----
(***************************************************************************)
(* Model of arexx-tap: the shared USB session (src/usb.rs) mutated by the  *)
(* hotplug callbacks, and the polling engine Arexx::read_record            *)
(* (src/arexx.rs) driven by the loop of main (src/main.rs).                *)
(*                                                                         *)
(* Two execution contexts share Mutex<UsbDevice>: the hotplug listener     *)
(* (device_arrived / device_left) and the polling loop (read_record).      *)
(* Every lock acquisition and every blocking USB transfer is a separate    *)
(* step, so that the interleavings of the two contexts are explored.       *)
(***************************************************************************)
EXTENDS Integers, Sequences, FiniteSets, TLC

\* ------------------------------------------------------------------ bounds
\* number of physical attachments of the device, the one at startup included
MaxPlugs == 3
\* number of handshake writes that are recorded in hsLog
MaxHandshakes == 3

\* ------------------------------------------------------------ value spaces
\* Option<UsbInner>::None; a Some(UsbInner) has gen >= 1
NoInner == [gen |-> 0, dev |-> 0, released |-> FALSE, kd |-> FALSE]

IsSome(i) == i.gen # 0

\* snap_inner before line 133 of read_record has looked at the session
Unset == -1

\* forms of the --start-time command line argument
StartArgs == {"absent", "time", "date", "datetime", "invalid"}

\* the fallible steps of device_arrived, in program order
ArrivalSteps == <<"device_descriptor", "open", "find_endpoints",
                  "detach_kernel_driver", "set_active_configuration",
                  "claim_interface", "set_alternate_setting">>

ArrivalFailures == {ArrivalSteps[i] : i \in 1..Len(ArrivalSteps)}

\* what a panic inside a hotplug callback does to the process: the binding
\* catches it and the callback is deregistered, or the unwind reaches the
\* C frames of the event loop and the process aborts
PanicOutcomes == {"deregistered", "aborted"}

\* sensor ids a response frame may carry; 5 is the configured sensor
SensorIds == {5, 7, 65535}

SensorTable == {5}

\* ------------------------------------------------------------------- state
VARIABLES
    connect_count,        \* UsbDevice.connect_count
    inner,                \* UsbDevice.inner
    lockOwner,            \* holder of the Mutex<UsbDevice>: "free", "poll", "main"
    poisoned,             \* the mutex was poisoned by a panic of its holder
    poll_pc,              \* position of the polling context inside read_record
    snap_count,           \* local connect_count of read_record
    snap_inner,           \* generation of the inner that read_record got at line 133
    connect_initialized,  \* Arexx.connect_initialized
    start_time,           \* Arexx.start_time
    hs_time,              \* local arexx_start_time of init_arexx
    result,               \* value returned by the last read_record
    callIO,               \* transfers issued by the current read_record
    ioDone,               \* outcomes of the transfers of this call that returned
    hp_pc,                \* position of the hotplug context inside a callback
    hp_new,               \* handle and endpoints device_arrived has prepared
    arrival_fail,         \* step at which the last device_arrived failed
    last_event,           \* last hotplug event whose callback has ended
    listener,             \* "running", "deregistered", "aborted"
    events,               \* hotplug events not yet dispatched
    boot_pc,              \* position of main inside UsbDevice::new
    reattach,             \* what the cleanup of the running device_left decided
    plugged,              \* the device is physically present
    phys,                 \* number of physical plug-ins so far
    kdBound,              \* a kernel driver is bound to the interface
    start_arg,            \* the --start-time argument
    hsLog,                \* handshake writes completed so far
    trigGens,             \* generations whose handle got a trigger frame
    sessionHist,          \* pairs <<connect_count, inner.gen>> the session has held
    mainLoop,             \* the polling loop of main and its sink fan-out
    decode,               \* one response read of read_record, byte by byte
    codec,                \* one use of the epoch codec
    discovery,            \* one run of find_endpoints
    calib                 \* the calibration table built by Arexx::new

sessionVars == <<connect_count, inner, sessionHist>>
lockVars == <<lockOwner, poisoned>>
pollVars == <<poll_pc, snap_count, snap_inner, connect_initialized,
              start_time, hs_time, result, callIO, ioDone>>
hpVars == <<hp_pc, hp_new, arrival_fail, last_event, listener, events,
            boot_pc, reattach>>
envVars == <<plugged, phys, kdBound>>
logVars == <<hsLog, trigGens>>
\* variables no operation of the session changes
fixedVars == <<start_arg, mainLoop, decode, codec, discovery, calib>>
\* the variables of the device session and of read_record
allSessionVars == <<sessionVars, lockVars, pollVars, hpVars, envVars, logVars,
                    start_arg>>

vars == <<connect_count, inner, lockOwner, poisoned, poll_pc, snap_count,
          snap_inner, connect_initialized, start_time, hs_time, result,
          callIO, ioDone, hp_pc, hp_new, arrival_fail, last_event, listener, events,
          boot_pc, reattach,
          plugged, phys, kdBound, start_arg, hsLog, trigGens, sessionHist,
          mainLoop, decode, codec, discovery, calib>>

\* ------------------------------------------------------------ pure helpers
\* parse_start_time: the three accepted formats give Some, anything else None
parse_start_time(arg) ==
    IF arg \in {"time", "date", "datetime"} THEN "caller" ELSE "none"

\* init_arexx line 112: self.start_time.get().unwrap_or(Local::now())
HandshakeTime(st) == IF st = "caller" THEN "caller" ELSE "now"

KeepStartTime(st) == st

\* init_arexx line 116: self.start_time.set(None)
ConsumeStartTime(st) == "none"

NextConnectCountStuck(c) == c

\* device_arrived line 117: usb.connect_count += 1
NextConnectCount(c) == c + 1

ArrivalCommitsIgnoringAlt(fail) == fail \in {"none", "set_alternate_setting"}

\* device_arrived reaches line 115 only when no expect() has panicked
ArrivalCommits(fail) == fail = "none"

AbsentResultErr == "Err"

\* read_record line 200: the else branch of `if let Some(..) = ..inner`
AbsentResult == "NotAvailable"

TransportFailedIgnored(outcome) == FALSE

\* init_arexx line 127 and read_record lines 151-154, 194-197: an Err of
\* write_bulk / read_bulk leaves the call through bail! (and `?` at line 135)
TransportFailed(outcome) == outcome # "ok"

\* read_record lines 171-188: classification of a decoded response
Classify(sensor_id) ==
    IF sensor_id # 65535 /\ sensor_id \in SensorTable
    THEN "Temperature" ELSE "Other"

\* a bulk transfer can only succeed on a handle of the device that is
\* physically present; it may always fail or time out
TransferOutcomes(h) ==
    IF plugged /\ h.dev = phys THEN {"ok", "err"} ELSE {"err"}

\* device_left lines 132-135: attach_kernel_driver is called when
\* kernel_driver_active returns Ok(true); what device_arrived found at line
\* 103 was not kept
ReattachAttempted(detached, active) == active = "true"

\* device_left is not running, or has not got past release_interface
NoDeparture == [detached |-> FALSE, attempted |-> FALSE]

LockHeldWhileRegisteringAssigneeFirst == TRUE

\* UsbDevice::new line 40: the value operand of the assignment, the call of
\* start_usb_listener, is evaluated before the assignee usb.lock().unwrap(),
\* so the registration runs without the lock
LockHeldWhileRegistering == FALSE

NeedsHandshakeOncePerProcess(initialized, count) == initialized = 0

\* read_record line 134: self.connect_initialized != connect_count
NeedsHandshake(initialized, count) == initialized # count

\* the process is running: it has not aborted and main has not panicked
Alive == listener # "aborted" /\ poll_pc # "panicked"

\* -------------------------------------------------------------------- Init
\* State after lines 35-39 of UsbDevice::new: the session has been
\* constructed Detached and the listener is not registered yet. The device
\* may already be plugged in, with or without a kernel driver bound.
SessionInit ==
    /\ start_arg \in StartArgs
    /\ plugged \in BOOLEAN
    /\ phys = IF plugged THEN 1 ELSE 0
    /\ kdBound \in (IF plugged THEN BOOLEAN ELSE {FALSE})
    /\ connect_count = 0
    /\ inner = NoInner
    /\ sessionHist = {<<0, 0>>}
    /\ lockOwner = "free"
    /\ poisoned = FALSE
    /\ poll_pc = "idle"
    /\ snap_count = 0
    /\ snap_inner = Unset
    /\ connect_initialized = 0
    /\ start_time = parse_start_time(start_arg)
    /\ hs_time = "none"
    /\ result = "pending"
    /\ callIO = <<>>
    /\ ioDone = <<>>
    /\ hp_pc = "wait"
    /\ hp_new = NoInner
    /\ arrival_fail = "none"
    /\ last_event = "none"
    /\ listener = "running"
    /\ events = <<>>
    /\ boot_pc = "new"
    /\ reattach = NoDeparture
    /\ hsLog = <<>>
    /\ trigGens = {}

\* a component that is not exercised by the specification at hand
Off == [pc |-> "off"]

Init ==
    /\ SessionInit
    /\ mainLoop = Off
    /\ decode = Off
    /\ codec = Off
    /\ discovery = Off
    /\ calib = Off

\* the session with no device and no start time, for the specifications
\* that exercise one component alone
SessionQuiet ==
    /\ SessionInit
    /\ start_arg = "absent"
    /\ ~plugged

\* ----------------------------------------------------------------- startup
\* UsbDevice::new line 40, value operand: start_usb_listener lines 144-151
\* register the callback with enumerate(true); for a device that is already
\* present device_arrived runs inside register(), on the thread of main
StartListener ==
    /\ boot_pc = "new"
    /\ boot_pc' = "registering"
    /\ lockOwner' = IF LockHeldWhileRegistering THEN "main" ELSE "free"
    /\ events' = IF plugged
                 THEN <<[type |-> "arrived", dev |-> phys]>>
                 ELSE <<>>
    /\ UNCHANGED <<sessionVars, poisoned, pollVars, logVars, envVars,
                   fixedVars, hp_pc, hp_new, arrival_fail, last_event,
                   listener, reattach>>

\* start_usb_listener lines 153-164 and UsbDevice::new lines 40-41: register()
\* has returned, the event loop is spawned, the session is locked to store
\* the JoinHandle and new returns
StoreListener ==
    /\ Alive
    /\ boot_pc = "registering"
    /\ events = <<>>
    /\ hp_pc = "wait"
    /\ lockOwner = IF LockHeldWhileRegistering THEN "main" ELSE "free"
    /\ lockOwner' = "free"
    /\ boot_pc' = "done"
    /\ UNCHANGED <<sessionVars, poisoned, pollVars, logVars, envVars,
                   fixedVars, hp_pc, hp_new, arrival_fail, last_event,
                   listener, events, reattach>>

\* ------------------------------------------------------------- environment
\* the device is plugged in; libusb queues an arrival event
Plug ==
    /\ Alive
    /\ boot_pc = "done"
    /\ ~plugged
    /\ phys < MaxPlugs
    /\ plugged' = TRUE
    /\ phys' = phys + 1
    /\ kdBound' \in BOOLEAN
    /\ events' = IF listener = "running"
                 THEN Append(events, [type |-> "arrived", dev |-> phys + 1])
                 ELSE events
    /\ UNCHANGED <<sessionVars, lockVars, pollVars, logVars, fixedVars,
                   hp_pc, hp_new, arrival_fail, last_event, listener,
                   boot_pc, reattach>>

\* the device is pulled; libusb queues a departure event
Unplug ==
    /\ Alive
    /\ boot_pc = "done"
    /\ plugged
    /\ plugged' = FALSE
    /\ kdBound' = FALSE
    /\ events' = IF listener = "running"
                 THEN Append(events, [type |-> "left", dev |-> phys])
                 ELSE events
    /\ UNCHANGED <<sessionVars, lockVars, pollVars, logVars, fixedVars, phys,
                   hp_pc, hp_new, arrival_fail, last_event, listener,
                   boot_pc, reattach>>

\* --------------------------------------------------------- hotplug context
\* a panic (expect / unwrap) inside a callback ends event dispatching
CallbackPanic(ev, outcome) ==
    /\ listener' = outcome
    /\ events' = <<>>
    /\ hp_pc' = "wait"
    /\ hp_new' = NoInner
    /\ last_event' = ev

\* device_arrived lines 95-111: everything before the lock is taken
DeviceArrivedPrepare ==
    /\ Alive
    /\ listener = "running"
    /\ hp_pc = "wait"
    /\ events # <<>>
    /\ Head(events).type = "arrived"
    /\ \E fail \in ArrivalFailures \cup {"none"} :
        \* the device of the event must still be there for open() and the
        \* configuration calls to succeed
        /\ fail = "none" => (plugged /\ Head(events).dev = phys)
        \* detach_kernel_driver is only called when a driver is active
        /\ fail = "detach_kernel_driver" => kdBound
        /\ arrival_fail' = fail
        /\ IF ArrivalCommits(fail)
           THEN /\ hp_new' = [gen |-> 0, dev |-> Head(events).dev,
                              released |-> FALSE, kd |-> kdBound]
                /\ hp_pc' = "arrived_ready"
                /\ kdBound' = FALSE
                /\ UNCHANGED <<listener, events, last_event>>
           ELSE /\ \E o \in PanicOutcomes : CallbackPanic("arrived", o)
                /\ UNCHANGED kdBound
    /\ UNCHANGED <<sessionVars, lockVars, pollVars, logVars, fixedVars,
                   plugged, phys, boot_pc, reattach>>

\* device_arrived lines 115-121: lock, connect_count += 1, inner = Some(..)
DeviceArrivedCommit ==
    /\ Alive
    /\ listener = "running"
    /\ hp_pc = "arrived_ready"
    /\ lockOwner = "free"
    /\ IF poisoned
       THEN /\ \E o \in PanicOutcomes : CallbackPanic("arrived", o)
            /\ UNCHANGED sessionVars
       ELSE /\ connect_count' = NextConnectCount(connect_count)
            /\ inner' = [hp_new EXCEPT !.gen = NextConnectCount(connect_count)]
            /\ sessionHist' = sessionHist \cup
                   {<<NextConnectCount(connect_count),
                      NextConnectCount(connect_count)>>}
            /\ hp_pc' = "wait"
            /\ hp_new' = NoInner
            /\ events' = Tail(events)
            /\ last_event' = "arrived"
            /\ UNCHANGED listener
    /\ UNCHANGED <<lockVars, pollVars, logVars, envVars, fixedVars,
                   arrival_fail, boot_pc, reattach>>

\* device_left lines 129-137: the cleanup block; the guard of the scrutinee
\* lives to the end of the `if let`, so a panic of an expect() in it happens
\* with the lock held and poisons the mutex
DeviceLeftCleanup ==
    /\ Alive
    /\ listener = "running"
    /\ hp_pc = "wait"
    /\ events # <<>>
    /\ Head(events).type = "left"
    /\ lockOwner = "free"
    /\ IF poisoned
       THEN /\ \E o \in PanicOutcomes : CallbackPanic("left", o)
            /\ UNCHANGED <<inner, poisoned, kdBound, reattach>>
       ELSE IF ~IsSome(inner)
       THEN /\ hp_pc' = "left_cleaned"
            /\ UNCHANGED <<inner, poisoned, kdBound, listener, events,
                           hp_new, last_event, reattach>>
       ELSE \E release \in {"ok", "err"}, active \in {"true", "other"},
               attach \in {"ok", "err"} :
            \* attach_kernel_driver is only called after Ok(true)
            /\ active = "other" => attach = "ok"
            /\ release = "err" => (active = "other" /\ attach = "ok")
            /\ reattach' = IF release = "ok"
                           THEN [detached |-> inner.kd,
                                 attempted |-> ReattachAttempted(inner.kd,
                                                                 active)]
                           ELSE reattach
            /\ IF release = "err" \/ attach = "err"
               THEN /\ poisoned' = TRUE
                    /\ inner' = [inner EXCEPT !.released = (release = "ok")]
                    /\ \E o \in PanicOutcomes : CallbackPanic("left", o)
                    /\ UNCHANGED kdBound
               ELSE /\ inner' = [inner EXCEPT !.released = TRUE]
                    /\ kdBound' = (kdBound \/ active = "true")
                    /\ hp_pc' = "left_cleaned"
                    /\ UNCHANGED <<poisoned, listener, events, hp_new,
                                   last_event>>
    /\ UNCHANGED <<connect_count, sessionHist, lockOwner, pollVars, logVars,
                   fixedVars, plugged, phys, arrival_fail, boot_pc>>

\* device_left line 139: second lock, inner = None
DeviceLeftDetach ==
    /\ Alive
    /\ listener = "running"
    /\ hp_pc = "left_cleaned"
    /\ lockOwner = "free"
    /\ IF poisoned
       THEN /\ \E o \in PanicOutcomes : CallbackPanic("left", o)
            /\ UNCHANGED sessionVars
       ELSE /\ inner' = NoInner
            /\ sessionHist' = sessionHist \cup {<<connect_count, 0>>}
            /\ hp_pc' = "wait"
            /\ events' = Tail(events)
            /\ last_event' = "left"
            /\ UNCHANGED <<connect_count, listener, hp_new>>
    /\ reattach' = NoDeparture
    /\ UNCHANGED <<lockVars, pollVars, logVars, envVars, fixedVars,
                   arrival_fail, boot_pc>>

\* --------------------------------------------------------- polling context
\* read_record line 132: lock, copy connect_count, unlock
PollReadCount ==
    /\ Alive
    /\ boot_pc = "done"
    /\ poll_pc = "idle"
    /\ lockOwner = "free"
    /\ IF poisoned
       THEN /\ poll_pc' = "panicked"
            /\ UNCHANGED <<snap_count, snap_inner, result, callIO, ioDone>>
       ELSE /\ poll_pc' = "got_count"
            /\ snap_count' = connect_count
            /\ snap_inner' = Unset
            /\ result' = "pending"
            /\ callIO' = <<>>
            /\ ioDone' = <<>>
    /\ UNCHANGED <<sessionVars, lockVars, hpVars, envVars, logVars, fixedVars,
                   connect_initialized, start_time, hs_time>>

\* read_record lines 133-146 and 200: second lock; on None return
\* NotAvailable; on Some keep the guard and issue the first transfer: the
\* handshake of init_arexx (lines 109-122) when connect_initialized differs
\* from the copied connect_count, else the trigger
PollInspect ==
    /\ Alive
    /\ poll_pc = "got_count"
    /\ lockOwner = "free"
    /\ IF poisoned
       THEN /\ poll_pc' = "panicked"
            /\ UNCHANGED <<lockOwner, snap_inner, start_time, hs_time, result,
                           callIO, trigGens>>
       ELSE IF ~IsSome(inner)
       THEN /\ poll_pc' = "idle"
            /\ snap_inner' = 0
            /\ result' = AbsentResult
            /\ UNCHANGED <<lockOwner, start_time, hs_time, callIO, trigGens>>
       ELSE IF NeedsHandshake(connect_initialized, snap_count)
       THEN /\ Len(hsLog) < MaxHandshakes
            /\ lockOwner' = "poll"
            /\ snap_inner' = inner.gen
            /\ hs_time' = HandshakeTime(start_time)
            /\ start_time' = ConsumeStartTime(start_time)
            /\ callIO' = Append(callIO, "handshake")
            /\ poll_pc' = "hs_io"
            /\ UNCHANGED <<result, trigGens>>
       ELSE /\ lockOwner' = "poll"
            /\ snap_inner' = inner.gen
            /\ callIO' = Append(callIO, "trigger")
            /\ trigGens' = trigGens \cup {inner.gen}
            /\ poll_pc' = "trig_io"
            /\ UNCHANGED <<result, start_time, hs_time>>
    /\ UNCHANGED <<sessionVars, poisoned, hpVars, envVars, fixedVars, hsLog,
                   snap_count, connect_initialized, ioDone>>

\* init_arexx lines 122-128 and read_record lines 135-146: the handshake
\* write returns; Ok records the generation and issues the trigger, Err
\* leaves read_record through `?`
PollHandshakeDone ==
    /\ Alive
    /\ poll_pc = "hs_io"
    /\ \E outcome \in TransferOutcomes(inner) :
        /\ hsLog' = Append(hsLog, [gen |-> inner.gen, time |-> hs_time,
                                   ok |-> (outcome = "ok")])
        /\ ioDone' = Append(ioDone, outcome)
        /\ IF ~TransportFailed(outcome)
           THEN /\ connect_initialized' = snap_count
                /\ callIO' = Append(callIO, "trigger")
                /\ trigGens' = trigGens \cup {inner.gen}
                /\ poll_pc' = "trig_io"
                /\ UNCHANGED <<lockOwner, result>>
           ELSE /\ result' = "Err"
                /\ lockOwner' = "free"
                /\ poll_pc' = "idle"
                /\ UNCHANGED <<connect_initialized, callIO, trigGens>>
    /\ UNCHANGED <<sessionVars, poisoned, hpVars, envVars, fixedVars,
                   snap_count, snap_inner, start_time, hs_time>>

\* read_record lines 147-158: the trigger write returns; Ok issues the read
PollTriggerDone ==
    /\ Alive
    /\ poll_pc = "trig_io"
    /\ \E outcome \in TransferOutcomes(inner) :
        /\ ioDone' = Append(ioDone, outcome)
        /\ IF ~TransportFailed(outcome)
           THEN /\ callIO' = Append(callIO, "read")
                /\ poll_pc' = "read_io"
                /\ UNCHANGED <<lockOwner, result>>
           ELSE /\ result' = "Err"
                /\ lockOwner' = "free"
                /\ poll_pc' = "idle"
                /\ UNCHANGED callIO
    /\ UNCHANGED <<sessionVars, poisoned, hpVars, envVars, logVars, fixedVars,
                   snap_count, snap_inner, connect_initialized, start_time,
                   hs_time>>

\* read_record lines 158-198: the read returns; Ok decodes and classifies
PollReadDone ==
    /\ Alive
    /\ poll_pc = "read_io"
    /\ \E outcome \in TransferOutcomes(inner), sensor_id \in SensorIds :
        /\ ioDone' = Append(ioDone, outcome)
        /\ result' = IF ~TransportFailed(outcome)
                     THEN Classify(sensor_id) ELSE "Err"
    /\ lockOwner' = "free"
    /\ poll_pc' = "idle"
    /\ UNCHANGED <<sessionVars, poisoned, hpVars, envVars, logVars, fixedVars,
                   snap_count, snap_inner, connect_initialized, start_time,
                   hs_time, callIO>>

\* ------------------------------------------------------------------- Next
Next ==
    \/ StartListener
    \/ StoreListener
    \/ Plug
    \/ Unplug
    \/ DeviceArrivedPrepare
    \/ DeviceArrivedCommit
    \/ DeviceLeftCleanup
    \/ DeviceLeftDetach
    \/ PollReadCount
    \/ PollInspect
    \/ PollHandshakeDone
    \/ PollTriggerDone
    \/ PollReadDone

Spec == Init /\ [][Next]_vars

\* ----------------------------------------------------------------- claims
\* number of handshake frames written successfully to the handle of g
OkHandshakes(g) ==
    Cardinality({i \in 1..Len(hsLog) : hsLog[i].gen = g /\ hsLog[i].ok})

\* the hotplug context finishes device_arrived by storing the new session
ArrivalCommitStep ==
    hp_pc = "arrived_ready" /\ hp_pc' = "wait" /\ listener' = "running"

\* the hotplug context returns from device_left
DepartureDoneStep ==
    hp_pc = "left_cleaned" /\ hp_pc' = "wait" /\ listener' = "running"

\* the polling context executes line 133 of read_record
InspectStep == poll_pc = "got_count" /\ poll_pc' # "got_count"

\* C1: a trigger frame is written to the handle of generation g only after
\* a handshake frame was written successfully to a handle of generation g.
C1_HandshakeBeforeTrigger ==
    \A g \in trigGens :
        \E i \in 1..Len(hsLog) : hsLog[i].gen = g /\ hsLog[i].ok

\* C2: the generation and the session state one read_record call works with
\* were held together by the shared session at some single moment.
C2_NoTornSnapshot ==
    snap_inner # Unset => <<snap_count, snap_inner>> \in sessionHist

\* C3: every generation gets at most one handshake frame, and exactly one
\* before a trigger frame is written in it.
C3_OneHandshakePerGeneration ==
    \A g \in 1..connect_count :
        /\ OkHandshakes(g) <= 1
        /\ g \in trigGens => OkHandshakes(g) = 1

\* C4: the polling context does not hold the session lock while a handshake
\* write, trigger write or response read is in progress.
C4_NoLockDuringTransfer ==
    poll_pc \in {"hs_io", "trig_io", "read_io"} => lockOwner # "poll"

\* C5: connect_count never decreases; a completed arrival starts from
\* Detached and yields a generation greater than every earlier one; the
\* departure transition keeps the generation and ends Detached; a Detached
\* session stays Detached until the next completed arrival.
C5_GenerationMonotonic ==
    [][ /\ connect_count' >= connect_count
        /\ ArrivalCommitStep =>
              /\ ~IsSome(inner) /\ IsSome(inner')
              /\ inner'.gen = connect_count'
              /\ \A p \in sessionHist : p[1] < connect_count'
        /\ ~ArrivalCommitStep => connect_count' = connect_count
        /\ DepartureDoneStep => ~IsSome(inner')
        /\ (~IsSome(inner) /\ ~ArrivalCommitStep) => ~IsSome(inner')
      ]_vars

\* C5 witness: two generations were created and the second one has departed
C5_Witness ==
    /\ connect_count >= 2
    /\ last_event = "left"
    /\ ~IsSome(inner)
    /\ <<1, 0>> \in sessionHist

\* C6: a device_arrived that fails at any step leaves connect_count and
\* inner as they were (Detached); connect_count is incremented and inner
\* becomes Some only in an arrival none of whose steps failed.
C6_RejectedArrivalChangesNothing ==
    [][ /\ (hp_pc = "wait" /\ arrival_fail' # "none" /\ last_event' = "arrived"
            /\ listener = "running" /\ listener' # "running") =>
              /\ connect_count' = connect_count
              /\ inner' = inner
              /\ ~IsSome(inner')
        /\ (connect_count' # connect_count \/ (IsSome(inner') /\ ~IsSome(inner))) =>
              /\ arrival_fail = "none"
              /\ ArrivalCommitStep
      ]_vars

\* C6 witness: an arrival was rejected after an earlier generation existed
C6_Witness ==
    /\ arrival_fail \in ArrivalFailures
    /\ last_event = "arrived"
    /\ connect_count = 1
    /\ ~IsSome(inner)

\* C7: after a rejected arrival the hotplug listener keeps dispatching
\* events.
C7_ListenerSurvivesRejectedArrival ==
    arrival_fail # "none" => listener = "running"

\* C8: once a departure event has been processed the session is Detached
\* and usable by the polling context, also when the cleanup failed.
C8_DetachedAfterDeparture ==
    last_event = "left" => (~IsSome(inner) /\ ~poisoned)

\* C9: read_record on a Detached session returns NotAvailable, issues no
\* USB transfer and leaves connect_initialized and start_time unchanged.
C9_DetachedPollIsInert ==
    [][ (InspectStep /\ ~IsSome(inner)) =>
              /\ result' = "NotAvailable"
              /\ poll_pc' = "idle"
              /\ lockOwner' = lockOwner
              /\ callIO' = <<>>
              /\ UNCHANGED <<connect_initialized, start_time, hsLog, trigGens>>
      ]_vars

\* C9 witness: a poll returned NotAvailable with the start time still pending
C9_Witness ==
    /\ result = "NotAvailable"
    /\ poll_pc = "idle"
    /\ ~IsSome(inner)
    /\ start_time = "caller"
    /\ callIO = <<>>

\* C10: a handshake frame carries the caller's start time exactly when it
\* is the first handshake of the process and a start time was supplied;
\* every other handshake carries the current time.
C10_StartTimeFirstHandshakeOnly ==
    /\ \A i \in 1..Len(hsLog) :
          (hsLog[i].time = "caller") <=>
              (i = 1 /\ parse_start_time(start_arg) = "caller")
    /\ poll_pc = "hs_io" =>
          ((hs_time = "caller") <=>
              (hsLog = <<>> /\ parse_start_time(start_arg) = "caller"))

\* C10 witness: the first handshake carried the caller's time and the
\* handshake after a reconnect carried the current time
C10_Witness ==
    /\ Len(hsLog) >= 2
    /\ hsLog[1].time = "caller"
    /\ hsLog[2].time = "now"
    /\ hsLog[2].gen > hsLog[1].gen

\* the orders in which one read_record call can have issued its transfers
AllowedIO ==
    {<<>>, <<"handshake">>, <<"handshake", "trigger">>,
     <<"handshake", "trigger", "read">>, <<"trigger">>, <<"trigger", "read">>}

\* C11: one read_record call issues at most one handshake write, one
\* trigger write and one response read, in that order; a transfer that
\* fails is the last one of its call and the call returns an error.
C11_NoStepAfterFailure ==
    /\ callIO \in AllowedIO
    /\ Len(ioDone) <= Len(callIO)
    /\ \A i \in 1..Len(ioDone) :
          ioDone[i] # "ok" =>
              /\ i = Len(callIO)
              /\ result = "Err"
              /\ poll_pc \notin {"hs_io", "trig_io", "read_io"}

\* C11 witness: the handshake write failed and the call ended without a
\* trigger
C11_Witness ==
    /\ callIO = <<"handshake">>
    /\ ioDone = <<"err">>
    /\ result = "Err"
    /\ poll_pc = "idle"

\* ------------------------------------------------- main loop and sink fan-out
\* number of sinks assemble_sinks may have registered
MaxSinks == 3
\* number of read_record calls of the loop that are followed
MaxCycles == 3

\* main.rs line 26
POLL_INTERVAL_SECONDS == 1

\* main.rs line 163: the extra sleep after NotAvailable
ABSENT_SLEEP_SECONDS == 5

SinkTypes == {"DataFile", "InfluxDb", "Mqtt"}

\* what read_record hands to the loop; "Panic" is the unwrap of a poisoned
\* session lock
ReadRecordResults == {"Temperature", "Other", "NotAvailable", "Err", "Panic"}

\* sink lists assemble_sinks can build, in configuration order
SinkLists == UNION {[1..n -> SinkTypes] : n \in 0..MaxSinks}

\* what publish() of a sink does when its write does or does not fail:
\* DataFileSink unwraps the result of writeln!/flush (data_file.rs 47-50),
\* InfluxDbSink expects the query result (influxdb.rs 83), MqttSink maps the
\* failure to bail! (mqtt.rs 40-43)
PublishOutcome(sink, failed) ==
    IF ~failed THEN "Ok"
    ELSE IF sink \in {"DataFile", "InfluxDb"} THEN "Panic"
    ELSE "Err"

DispatchTargetBailOnErr(res, nsinks) ==
    IF res \in {"Panic", "Err"} THEN "panicked"
    ELSE IF res = "Temperature" /\ nsinks > 0 THEN "publish"
    ELSE "sleep"

\* main.rs lines 142-171: the arm of the match the loop takes
DispatchTarget(res, nsinks) ==
    IF res = "Panic" THEN "panicked"
    ELSE IF res = "Temperature" /\ nsinks > 0 THEN "publish"
    ELSE "sleep"

InitLoop ==
    /\ SessionQuiet
    /\ decode = Off
    /\ codec = Off
    /\ discovery = Off
    /\ calib = Off
    /\ \E sl \in SinkLists :
        mainLoop = [pc |-> "call", result |-> "none", sinks |-> sl, idx |-> 0,
                    offered |-> <<>>, slept |-> 0, cycles |-> 0, errors |-> 0]

\* main.rs line 142: arexx.read_record()
LoopReadRecord ==
    /\ mainLoop.pc = "call"
    /\ mainLoop.cycles < MaxCycles
    /\ \E res \in ReadRecordResults :
        mainLoop' = [mainLoop EXCEPT !.pc = "dispatch", !.result = res,
                                     !.idx = 0, !.offered = <<>>,
                                     !.slept = 0,
                                     !.cycles = mainLoop.cycles + 1]
    /\ UNCHANGED <<allSessionVars, decode, codec, discovery, calib>>

\* main.rs lines 142-171 without the publish calls
LoopDispatch ==
    /\ mainLoop.pc = "dispatch"
    /\ mainLoop' =
         [mainLoop EXCEPT
            !.pc = DispatchTarget(mainLoop.result, Len(mainLoop.sinks)),
            !.idx = 1,
            !.slept = IF mainLoop.result = "NotAvailable"
                      THEN ABSENT_SLEEP_SECONDS ELSE 0,
            !.errors = IF mainLoop.result = "Err"
                       THEN mainLoop.errors + 1 ELSE mainLoop.errors]
    /\ UNCHANGED <<allSessionVars, decode, codec, discovery, calib>>

\* main.rs lines 148-158: publish to the next sink of the list
LoopPublish ==
    /\ mainLoop.pc = "publish"
    /\ \E failed \in BOOLEAN :
        LET sink == mainLoop.sinks[mainLoop.idx]
            out == PublishOutcome(sink, failed)
        IN mainLoop' =
             [mainLoop EXCEPT
                !.offered = Append(mainLoop.offered, sink),
                !.idx = mainLoop.idx + 1,
                !.pc = IF out = "Panic" THEN "panicked"
                       ELSE IF mainLoop.idx = Len(mainLoop.sinks) THEN "sleep"
                       ELSE "publish"]
    /\ UNCHANGED <<allSessionVars, decode, codec, discovery, calib>>

\* main.rs line 172: the sleep at the end of every cycle
LoopSleep ==
    /\ mainLoop.pc = "sleep"
    /\ mainLoop' = [mainLoop EXCEPT
                      !.pc = "call",
                      !.slept = mainLoop.slept + POLL_INTERVAL_SECONDS]
    /\ UNCHANGED <<allSessionVars, decode, codec, discovery, calib>>

NextLoop ==
    \/ LoopReadRecord
    \/ LoopDispatch
    \/ LoopPublish
    \/ LoopSleep

LoopSpec == InitLoop /\ [][NextLoop]_vars

\* C12: a transport error returned by read_record never ends the loop: the
\* loop goes to its normal sleep of POLL_INTERVAL_SECONDS and from there to
\* the next read_record call.
C12_ErrorKeepsLoopRunning ==
    [][ mainLoop.result = "Err" =>
          /\ mainLoop.pc \in {"dispatch", "sleep", "call"}
          /\ mainLoop.pc = "dispatch" =>
                (mainLoop'.pc = "sleep" /\ mainLoop'.slept = 0)
          /\ mainLoop.pc = "sleep" =>
                (mainLoop'.pc = "call"
                 /\ mainLoop'.slept = POLL_INTERVAL_SECONDS)
          /\ (mainLoop.pc = "call" /\ mainLoop.cycles < MaxCycles) =>
                ENABLED LoopReadRecord
      ]_vars

\* C12 witness: the loop is about to call read_record again after two
\* errors in a row
C12_Witness ==
    /\ mainLoop.pc = "call"
    /\ mainLoop.result = "Err"
    /\ mainLoop.errors = 2
    /\ mainLoop.cycles = 2
    /\ mainLoop.slept = POLL_INTERVAL_SECONDS

\* C13: when a Temperature reading has been handled every registered sink
\* was offered it and the loop goes on, whichever publish calls failed.
C13_SinkFailureIsolated ==
    (mainLoop.result = "Temperature" /\ mainLoop.pc \in {"sleep", "panicked"})
        => (mainLoop.offered = mainLoop.sinks /\ mainLoop.pc = "sleep")

\* ------------------------------------------------------- protocol codec
\* arexx.rs lines 109 and 142: every frame is a [u8; 64]
FRAME_LEN == 64

FrameIndex == 0..(FRAME_LEN - 1)

\* A point in time is kept relative to 2000-01-01T00:00:00Z (ref_date of
\* lines 42 and 49): neg tells the side of the epoch, secs is the number of
\* whole seconds of the distance as limbs of 16 bits, least significant
\* first (an i64 of seconds does not fit one model integer), frac tells
\* whether a fraction of a second comes on top.
Epoch == [neg |-> FALSE, secs |-> <<0, 0, 0>>, frac |-> FALSE]

U16FromBeBytesSwapped(b0, b1) == b0 + 256 * b1

\* u16::from_be_bytes
U16FromBeBytes(b0, b1) == 256 * b0 + b1

\* u16::from_le_bytes
U16FromLeBytes(b0, b1) == b0 + 256 * b1

\* u32::from_le_bytes, as two limbs
U32FromLeBytes(bytes) ==
    <<U16FromLeBytes(bytes[1], bytes[2]), U16FromLeBytes(bytes[3], bytes[4])>>

U32ToBeBytes(u) ==
    <<u[2] \div 256, u[2] % 256, u[1] \div 256, u[1] % 256>>

\* u32::to_le_bytes of a value given as two limbs
U32ToLeBytes(u) ==
    <<u[1] % 256, u[1] \div 256, u[2] % 256, u[2] \div 256>>

\* Duration::num_seconds: whole seconds, rounded toward zero, with sign
NumSeconds(t) == [neg |-> t.neg, mag |-> t.secs]

\* `as u32` of an i64: the low 32 bits of the two's complement
AsU32(n) ==
    LET lo == n.mag[1]
        hi == n.mag[2]
    IN IF ~n.neg THEN <<lo, hi>>
       ELSE IF lo = 0 /\ hi = 0 THEN <<0, 0>>
       ELSE IF lo = 0 THEN <<0, 65536 - hi>>
       ELSE <<65536 - lo, 65535 - hi>>

\* create_arexx_date_bytes (lines 41-46); it has no Err path
create_arexx_date_bytes(t) ==
    [kind |-> "Ok", bytes |-> U32ToLeBytes(AsU32(NumSeconds(t)))]

\* parse_arexx_date_bytes (lines 48-52): ref_date + secs; it has no Err path
parse_arexx_date_bytes(bytes) ==
    LET secs == U32FromLeBytes(bytes)
    IN [kind |-> "Ok",
        time |-> [neg |-> FALSE, secs |-> <<secs[1], secs[2], 0>>,
                  frac |-> FALSE]]

\* t truncated to whole seconds
TruncSeconds(t) ==
    IF t.secs = <<0, 0, 0>> THEN Epoch ELSE [t EXCEPT !.frac = FALSE]

\* the buffer after read_bulk has stored len bytes of the device's frame
ReadInto(buf, frame, len) ==
    [i \in FrameIndex |-> IF i < len THEN frame[i] ELSE buf[i]]

\* read_record lines 142-146: the buffer that is sent as trigger and then
\* handed to read_bulk
TriggerFrame == [i \in FrameIndex |-> IF i = 0 THEN 3 ELSE 0]

IsSentinelNever(sensor_id) == FALSE

\* read_record line 171
IsSentinel(sensor_id) == sensor_id = 65535

\* read_record lines 159-192: decode and classify the buffer; table maps a
\* sensor id to its scale in units of 1/10000
DecodeResponse(buf, table) ==
    LET sensor_id == U16FromLeBytes(buf[2], buf[3])
        value == U16FromBeBytes(buf[4], buf[5])
        timestamp == parse_arexx_date_bytes(<<buf[6], buf[7], buf[8], buf[9]>>)
    IN IF timestamp.kind = "Ok"
       THEN IF ~IsSentinel(sensor_id)
            THEN IF sensor_id \in DOMAIN table
                 THEN [kind |-> "Temperature", timestamp |-> timestamp.time,
                       sensor |-> sensor_id, value |-> value * table[sensor_id]]
                 ELSE [kind |-> "Other"]
            ELSE [kind |-> "Other"]
       ELSE [kind |-> "Err"]

\* ---------------------------------------- one response read of read_record
\* byte values the device puts at the positions of a response frame
IdBytes == {0, 5, 255}
ValueBytes == {0, 1, 144}
StampBytes == {0, 10, 255}
FillBytes == {0, 170}

\* lengths read_bulk may report
ReadLengths == {0, 3, 6, 10, 63, 64}

\* calibration tables: sensor id -> scale in 1/10000 (0.01 = 100,
\* INTERNAL_TEMPERATURE_SCALE 0.0078 = 78)
Tables ==
    { (5 :> 100), (5 :> 100) @@ (0 :> 78), (5 :> 78) @@ (65535 :> 78),
      (1280 :> 100) }

DeviceFrame(id, val, ts, fill) ==
    [i \in FrameIndex |->
        CASE i = 2 -> id[1]
          [] i = 3 -> id[2]
          [] i = 4 -> val[1]
          [] i = 5 -> val[2]
          [] i = 6 -> ts[1]
          [] i = 7 -> ts[2]
          [] i = 8 -> 0
          [] i = 9 -> ts[3]
          [] OTHER -> fill]

InitDecode ==
    /\ SessionQuiet
    /\ mainLoop = Off
    /\ codec = Off
    /\ discovery = Off
    /\ calib = Off
    /\ \E id \in IdBytes \X IdBytes, val \in ValueBytes \X ValueBytes,
          ts \in StampBytes \X {0, 1} \X {0, 1}, fill \in FillBytes,
          table \in Tables :
        decode = [pc |-> "read_io", table |-> table,
                  frame |-> DeviceFrame(id, val, ts, fill),
                  buf |-> TriggerFrame, len |-> 0,
                  out |-> [kind |-> "none"]]

\* read_record lines 158-198 with the bytes of the response: Ok(_len)
\* decodes the buffer whatever _len is, Err bails
DecodeRead ==
    /\ decode.pc = "read_io"
    /\ \E len \in ReadLengths, outcome \in {"ok", "err"} :
        IF TransportFailed(outcome)
        THEN decode' = [decode EXCEPT !.pc = "failed",
                                      !.out = [kind |-> "Err"]]
        ELSE LET buf == ReadInto(decode.buf, decode.frame, len)
             IN decode' = [decode EXCEPT !.pc = "done", !.len = len,
                              !.buf = buf,
                              !.out = DecodeResponse(buf, decode.table)]
    /\ UNCHANGED <<allSessionVars, mainLoop, codec, discovery, calib>>

NextDecode == DecodeRead

DecodeSpec == InitDecode /\ [][NextDecode]_vars

\* sensor id in bytes 2-3 of the buffer that was decoded
DecodedId == decode.buf[2] + 256 * decode.buf[3]

\* C14: a read that delivered fewer than 64 bytes is never decoded and
\* classified; it ends in an error.
C14_ShortReadNotDecoded ==
    (decode.pc = "done" /\ decode.len < FRAME_LEN) => decode.out.kind = "Err"

\* C15: a response that was read successfully gives Temperature exactly
\* when its sensor id is not 0xFFFF and is a key of the calibration table,
\* and Other in every other case, never an error.
C15_TemperatureIffKnownSensor ==
    decode.pc = "done" =>
        decode.out.kind =
            IF DecodedId # 65535 /\ DecodedId \in DOMAIN decode.table
            THEN "Temperature" ELSE "Other"

\* C15 witness: a full frame with the sentinel id, the sentinel being a key
\* of the table, was classified Other
C15_Witness ==
    /\ decode.pc = "done"
    /\ decode.len = FRAME_LEN
    /\ DecodedId = 65535
    /\ 65535 \in DOMAIN decode.table
    /\ decode.out.kind = "Other"

\* C16: for a known sensor id s with scale k the reading has sensor s,
\* value (big-endian u16 of bytes 4-5) * k and timestamp epoch + (little-
\* endian u32 of bytes 6-9) seconds; nothing else of the frame enters.
C16_ReadingFromFrameFields ==
    (decode.pc = "done" /\ decode.out.kind = "Temperature") =>
        /\ decode.out.sensor = DecodedId
        /\ decode.out.value =
              (256 * decode.buf[4] + decode.buf[5]) * decode.table[DecodedId]
        /\ decode.out.timestamp =
              [neg |-> FALSE,
               secs |-> <<decode.buf[6] + 256 * decode.buf[7],
                          decode.buf[8] + 256 * decode.buf[9], 0>>,
               frac |-> FALSE]

\* C16 witness: calibration {5: 0.01}, frame with id 5, raw bytes 0x01 0x90
\* and 10 seconds, all other bytes 0xAA: sensor 5, value 4.0, epoch + 10 s
C16_Witness ==
    /\ decode.pc = "done"
    /\ decode.len = FRAME_LEN
    /\ decode.buf[0] = 170
    /\ decode.buf[4] = 1
    /\ decode.buf[5] = 144
    /\ decode.out.kind = "Temperature"
    /\ decode.out.sensor = 5
    /\ decode.out.value = 40000
    /\ decode.out.timestamp = [Epoch EXCEPT !.secs = <<10, 0, 0>>]

\* --------------------------------------------- one use of the epoch codec
\* limbs the seconds of a handshake time are built from (86400 = <<20864, 1>>)
LimbChoices == {0, 1, 20864, 65535}

\* handshake times: Local::now() or a parsed --start-time, on either side of
\* the epoch and also more than 2^32 seconds after it
Times ==
    {t \in [neg : BOOLEAN,
            secs : LimbChoices \X LimbChoices \X {0, 1},
            frac : BOOLEAN] :
        t.neg => (t.secs # <<0, 0, 0>> \/ t.frac)}

InitCodec ==
    /\ SessionQuiet
    /\ mainLoop = Off
    /\ decode = Off
    /\ discovery = Off
    /\ calib = Off
    /\ \E t \in Times :
        codec = [pc |-> "encode", t |-> t, hs |-> <<>>, back |-> Epoch]

\* init_arexx lines 118-128: build the handshake frame (first five bytes)
\* from create_arexx_date_bytes and write it
CodecEncode ==
    /\ codec.pc = "encode"
    /\ LET enc == create_arexx_date_bytes(codec.t)
       IN IF enc.kind = "Ok"
          THEN codec' = [codec EXCEPT !.pc = "sent",
                                      !.hs = <<4>> \o enc.bytes]
          ELSE codec' = [codec EXCEPT !.pc = "rejected"]
    /\ UNCHANGED <<allSessionVars, mainLoop, decode, discovery, calib>>

\* the seconds field of the frame is decoded with parse_arexx_date_bytes
CodecDecode ==
    /\ codec.pc = "sent"
    /\ codec' = [codec EXCEPT
                   !.pc = "done",
                   !.back = parse_arexx_date_bytes(SubSeq(codec.hs, 2, 5)).time]
    /\ UNCHANGED <<allSessionVars, mainLoop, decode, discovery, calib>>

NextCodec ==
    \/ CodecEncode
    \/ CodecDecode

CodecSpec == InitCodec /\ [][NextCodec]_vars

\* C17 as stated: for every t on or after the epoch, decoding the encoded
\* seconds gives t truncated to whole seconds.
C17_RoundTripEveryTime ==
    (codec.pc = "done" /\ ~codec.t.neg) => codec.back = TruncSeconds(codec.t)

\* C17 amended: for every t on or after the epoch and less than 2^32
\* seconds after it, decoding the encoded seconds gives t truncated to
\* whole seconds.
C17_RoundTripWithinU32 ==
    (codec.pc = "done" /\ ~codec.t.neg /\ codec.t.secs[3] = 0)
        => codec.back = TruncSeconds(codec.t)

\* C17 witness: the last representable second, with a fraction, came back
\* truncated
C17_Witness ==
    /\ codec.pc = "done"
    /\ codec.t = [neg |-> FALSE, secs |-> <<65535, 65535, 0>>, frac |-> TRUE]
    /\ codec.hs = <<4, 255, 255, 255, 255>>
    /\ codec.back = [neg |-> FALSE, secs |-> <<65535, 65535, 0>>,
                     frac |-> FALSE]

\* C18: a time one second or more before the epoch never becomes a
\* handshake frame; it is rejected.
C18_PreEpochRejected ==
    (codec.pc \in {"sent", "done"} /\ codec.t.neg)
        => codec.t.secs = <<0, 0, 0>>

\* ------------------------------------------------------ endpoint discovery
\* number of descriptors (alt-settings and unreadable configurations) of a
\* device
MaxDescriptors == 3

\* what an alt-setting exposes: no bulk endpoint, a bulk IN only, a bulk OUT
\* only, or a bulk OUT followed by a bulk IN
AltKinds == {"none", "in", "out", "both"}

\* endpoint descriptors of the k-th descriptor of the device; addresses are
\* unique to it (IN addresses carry bit 7)
EndpointsOf(kind, k) ==
    CASE kind = "none" -> <<[dir |-> "In", type |-> "Interrupt", addr |-> 128 + k]>>
      [] kind = "in"   -> <<[dir |-> "In", type |-> "Bulk", addr |-> 128 + k]>>
      [] kind = "out"  -> <<[dir |-> "Out", type |-> "Bulk", addr |-> k]>>
      [] kind = "both" -> <<[dir |-> "Out", type |-> "Bulk", addr |-> k],
                            [dir |-> "In", type |-> "Interrupt", addr |-> 64 + k],
                            [dir |-> "In", type |-> "Bulk", addr |-> 128 + k]>>

\* A device is written down as the list of its descriptors in descriptor
\* order; start tells whether a descriptor opens a new configuration, a new
\* interface of the current configuration or is a further alt-setting of
\* the current interface; "config_err" is a configuration whose descriptor
\* cannot be read
Slots ==
    [start : {"config", "iface", "alt"}, kind : AltKinds]
        \cup {[start |-> "config_err", kind |-> "none"]}

WellFormed(slots) ==
    \A i \in 1..Len(slots) :
        slots[i].start \in {"iface", "alt"} =>
            (i > 1 /\ slots[i - 1].start # "config_err")

SlotLists ==
    {s \in UNION {[1..n -> Slots] : n \in 0..MaxDescriptors} : WellFormed(s)}

\* the descriptor tree of the device: configurations, their interfaces,
\* their alt-settings
AddSlot(dev, s, k) ==
    LET alt(ifn, setn) == [iface |-> ifn, setting |-> setn,
                           eps |-> EndpointsOf(s.kind, k)]
        c == dev[Len(dev)]
    IN CASE s.start = "config_err" ->
              Append(dev, [ok |-> FALSE, number |-> Len(dev) + 1,
                           ifaces |-> <<>>])
         [] s.start = "config" ->
              Append(dev, [ok |-> TRUE, number |-> Len(dev) + 1,
                           ifaces |-> << <<alt(0, 0)>> >>])
         [] s.start = "iface" ->
              [dev EXCEPT ![Len(dev)].ifaces =
                  Append(c.ifaces, <<alt(Len(c.ifaces), 0)>>)]
         [] s.start = "alt" ->
              [dev EXCEPT ![Len(dev)].ifaces[Len(c.ifaces)] =
                  Append(c.ifaces[Len(c.ifaces)],
                         alt(Len(c.ifaces) - 1, Len(c.ifaces[Len(c.ifaces)])))]

RECURSIVE BuildDevice(_, _)
BuildDevice(slots, k) ==
    IF k = 0 THEN <<>>
    ELSE AddSlot(BuildDevice(slots, k - 1), slots[k], k)

\* results of a step of the scan
NoEndpoints == [kind |-> "None"]
KeepScanning == [kind |-> "Continue"]

\* endpoint_descriptors().find(|d| d.direction() == dir && d.transfer_type()
\* == transfer_type): indices of the matching descriptors
Matching(eps, dir, transfer_type) ==
    {i \in 1..Len(eps) : eps[i].dir = dir /\ eps[i].type = transfer_type}

Min(S) == CHOOSE x \in S : \A y \in S : x <= y

AltStepSkipsPartial(cfg, alt, transfer_type) ==
    LET ins == Matching(alt.eps, "In", transfer_type)
        outs == Matching(alt.eps, "Out", transfer_type)
    IN IF ins # {} /\ outs # {}
       THEN [kind |-> "Some", config |-> cfg.number, iface |-> alt.iface,
             setting |-> alt.setting,
             read_addr |-> alt.eps[Min(ins)].addr,
             write_addr |-> alt.eps[Min(outs)].addr]
       ELSE KeepScanning

\* find_endpoints lines 61-74: the body of the innermost loop; both arms of
\* the `if let` return
AltStep(cfg, alt, transfer_type) ==
    LET ins == Matching(alt.eps, "In", transfer_type)
        outs == Matching(alt.eps, "Out", transfer_type)
    IN IF ins # {} /\ outs # {}
       THEN [kind |-> "Some", config |-> cfg.number, iface |-> alt.iface,
             setting |-> alt.setting,
             read_addr |-> alt.eps[Min(ins)].addr,
             write_addr |-> alt.eps[Min(outs)].addr]
       ELSE NoEndpoints

\* line 60: for interface_desc in interface.descriptors()
RECURSIVE ScanAlts(_, _, _, _)
ScanAlts(cfg, alts, j, transfer_type) ==
    IF j > Len(alts) THEN KeepScanning
    ELSE LET r == AltStep(cfg, alts[j], transfer_type)
         IN IF r = KeepScanning
            THEN ScanAlts(cfg, alts, j + 1, transfer_type)
            ELSE r

\* line 59: for interface in config_desc.interfaces()
RECURSIVE ScanInterfaces(_, _, _)
ScanInterfaces(cfg, i, transfer_type) ==
    IF i > Len(cfg.ifaces) THEN KeepScanning
    ELSE LET r == ScanAlts(cfg, cfg.ifaces[i], 1, transfer_type)
         IN IF r = KeepScanning
            THEN ScanInterfaces(cfg, i + 1, transfer_type)
            ELSE r

\* lines 53-57: for n in 0..num_configurations(), Err(_) => continue
RECURSIVE ScanConfigs(_, _, _)
ScanConfigs(dev, n, transfer_type) ==
    IF n > Len(dev) THEN KeepScanning
    ELSE IF ~dev[n].ok THEN ScanConfigs(dev, n + 1, transfer_type)
    ELSE LET r == ScanInterfaces(dev[n], 1, transfer_type)
         IN IF r = KeepScanning
            THEN ScanConfigs(dev, n + 1, transfer_type)
            ELSE r

\* find_endpoints (lines 45-80); line 79 is the None after the loops
find_endpoints(dev, transfer_type) ==
    LET r == ScanConfigs(dev, 1, transfer_type)
    IN IF r = KeepScanning THEN NoEndpoints ELSE r

InitDiscovery ==
    /\ SessionQuiet
    /\ mainLoop = Off
    /\ decode = Off
    /\ codec = Off
    /\ calib = Off
    /\ \E slots \in SlotLists :
        discovery = [pc |-> "scan", slots |-> slots,
                     device |-> BuildDevice(slots, Len(slots)),
                     found |-> KeepScanning]

\* device_arrived line 101: find_endpoints(&device, &desc, TransferType::Bulk)
Discover ==
    /\ discovery.pc = "scan"
    /\ discovery' = [discovery EXCEPT
                       !.pc = "done",
                       !.found = find_endpoints(discovery.device, "Bulk")]
    /\ UNCHANGED <<allSessionVars, mainLoop, decode, codec, calib>>

NextDiscovery == Discover

DiscoverySpec == InitDiscovery /\ [][NextDiscovery]_vars

\* positions of the alt-settings of the device, in descriptor order
AltPositions ==
    {k \in 1..Len(discovery.slots) : discovery.slots[k].start # "config_err"}

\* the alt-setting at position k and its place in the tree
Located(k) ==
    LET n == Cardinality({q \in 1..k :
                 discovery.slots[q].start \in {"config", "config_err"}})
        cfgStart == CHOOSE q \in 1..k :
                 /\ discovery.slots[q].start = "config"
                 /\ \A r \in (q + 1)..k : discovery.slots[r].start \notin
                                             {"config", "config_err"}
        ifn == Cardinality({q \in (cfgStart + 1)..k :
                 discovery.slots[q].start = "iface"})
        ifStart == CHOOSE q \in cfgStart..k :
                 /\ discovery.slots[q].start \in {"config", "iface"}
                 /\ \A r \in (q + 1)..k : discovery.slots[r].start = "alt"
    IN [kind |-> "Some", config |-> n, iface |-> ifn, setting |-> k - ifStart,
        read_addr |-> 128 + k, write_addr |-> k]

\* C19: the scan returns the first alt-setting in descriptor order that
\* exposes both a bulk IN and a bulk OUT endpoint; earlier alt-settings
\* without any bulk endpoint do not stop it.
C19_FirstPairAfterEmptyAltSettings ==
    discovery.pc = "done" =>
        \A k \in AltPositions :
            (/\ discovery.slots[k].kind = "both"
             /\ \A q \in AltPositions : q < k => discovery.slots[q].kind = "none")
                => discovery.found = Located(k)

\* C20: when the first alt-setting with a bulk endpoint exposes one
\* direction only the result is None, whatever follows it; the addresses of
\* a returned endpoint set belong to one and the same alt-setting.
C20_FailFastOnPartialMatch ==
    discovery.pc = "done" =>
        /\ \A k \in AltPositions :
              (/\ discovery.slots[k].kind \in {"in", "out"}
               /\ \A q \in AltPositions : q < k => discovery.slots[q].kind = "none")
                  => discovery.found = NoEndpoints
        /\ discovery.found.kind = "Some" =>
              \E k \in AltPositions :
                  /\ discovery.slots[k].kind = "both"
                  /\ discovery.found = Located(k)

\* C20 witness: an OUT-only alt-setting, then a complete pair in a later
\* configuration; nothing is returned
C20_Witness ==
    /\ discovery.pc = "done"
    /\ Len(discovery.slots) = 2
    /\ discovery.slots[1] = [start |-> "config", kind |-> "out"]
    /\ discovery.slots[2] = [start |-> "config", kind |-> "both"]
    /\ discovery.found = NoEndpoints

\* ------------------------------------------- calibration table of Arexx::new
\* number of [[sensors]] entries of the configuration file
MaxSensors == 2

\* Option<f32>::None of a temperature_scaling field
NoScale == -1

\* INTERNAL_TEMPERATURE_SCALE = 0.0078, in 1/10000
INTERNAL_TEMPERATURE_SCALE == 78

\* scales a configuration file may give, in 1/10000
ConfigScales == {NoScale, 50, 100}

\* sensor ids of [[sensors]] entries and of response frames
ConfigIds == {5, 7}

FrameIds == {5, 7, 9}

SensorConfigs == [id : ConfigIds, temperature_scaling : ConfigScales]

SensorLists ==
    UNION {[1..n -> SensorConfigs] : n \in 0..MaxSensors}

fallback_temperature_scaling_default(global) == INTERNAL_TEMPERATURE_SCALE

\* Arexx::new line 92: config.temperature_scaling.unwrap_or(INTERNAL_..)
fallback_temperature_scaling(global) ==
    IF global # NoScale THEN global ELSE INTERNAL_TEMPERATURE_SCALE

\* Arexx::new lines 94-96: an unset per-sensor scale is set to the fallback
ResolveScale(sensor, global) ==
    IF sensor.temperature_scaling = NoScale
    THEN fallback_temperature_scaling(global)
    ELSE sensor.temperature_scaling

\* Arexx::new lines 93-98: the loop over config.sensors; HashMap::insert
\* replaces the entry of an id that was inserted before
RECURSIVE sensor_config_lookup(_, _, _)
sensor_config_lookup(sensors, n, global) ==
    IF n = 0 THEN <<>>
    ELSE (sensors[n].id :> ResolveScale(sensors[n], global))
             @@ sensor_config_lookup(sensors, n - 1, global)

NoRead == [id |-> 0, scale |-> NoScale]

InitCalib ==
    /\ SessionQuiet
    /\ mainLoop = Off
    /\ decode = Off
    /\ codec = Off
    /\ discovery = Off
    /\ \E global \in ConfigScales, sensors \in SensorLists :
        calib = [pc |-> "config", temperature_scaling |-> global,
                 sensors |-> sensors, table |-> <<>>, attached |-> FALSE,
                 last |-> NoRead]

\* Arexx::new lines 91-105: the table is built before new returns
CalibNew ==
    /\ calib.pc = "config"
    /\ calib' = [calib EXCEPT
                   !.pc = "ready",
                   !.table = sensor_config_lookup(calib.sensors,
                                 Len(calib.sensors), calib.temperature_scaling)]
    /\ UNCHANGED <<allSessionVars, mainLoop, decode, codec, discovery>>

\* read_record lines 172-174: the lookup of the decoded sensor id and the
\* read of its scale through Cell::get
CalibRead ==
    /\ calib.pc = "ready"
    /\ calib.attached
    /\ \E id \in FrameIds :
        calib' = [calib EXCEPT
                    !.last = IF id \in DOMAIN calib.table
                             THEN [id |-> id, scale |-> calib.table[id]]
                             ELSE [id |-> id, scale |-> NoScale]]
    /\ UNCHANGED <<allSessionVars, mainLoop, decode, codec, discovery>>

\* device_arrived lines 115-121 and device_left line 139: a hotplug event
\* writes the session behind the mutex, never the Arexx value
CalibHotplug ==
    /\ calib.pc = "ready"
    /\ calib' = [calib EXCEPT !.attached = ~calib.attached]
    /\ UNCHANGED <<allSessionVars, mainLoop, decode, codec, discovery>>

NextCalib ==
    \/ CalibNew
    \/ CalibRead
    \/ CalibHotplug

CalibSpec == InitCalib /\ [][NextCalib]_vars

\* the [[sensors]] entry that decides the table entry of id: the last one
LastEntry(id) ==
    calib.sensors[CHOOSE k \in 1..Len(calib.sensors) :
        /\ calib.sensors[k].id = id
        /\ \A q \in (k + 1)..Len(calib.sensors) : calib.sensors[q].id # id]

TableResolved ==
    /\ DOMAIN calib.table = {calib.sensors[k].id : k \in 1..Len(calib.sensors)}
    /\ \A id \in DOMAIN calib.table :
        calib.table[id] =
            IF LastEntry(id).temperature_scaling # NoScale
            THEN LastEntry(id).temperature_scaling
            ELSE IF calib.temperature_scaling # NoScale
            THEN calib.temperature_scaling
            ELSE INTERNAL_TEMPERATURE_SCALE

\* C21: when Arexx::new has returned, hence before the first read_record,
\* every sensor of the calibration table has its explicit scale when one is
\* configured, else the global scale when one is configured, else 0.0078;
\* no later step (a read_record lookup, a hotplug event) changes the table.
C21_ScaleResolvedOnce ==
    [][/\ calib'.pc = "ready" => TableResolved'
       /\ calib.pc = "ready" => calib'.table = calib.table]_vars

\* C21 witness: sensor 5 has an explicit scale, sensor 7 has none and took
\* the global one; a hotplug event and a read of sensor 7 have happened
C21_Witness ==
    /\ calib.pc = "ready"
    /\ calib.temperature_scaling = 50
    /\ calib.sensors = <<[id |-> 5, temperature_scaling |-> 100],
                         [id |-> 7, temperature_scaling |-> NoScale]>>
    /\ calib.last = [id |-> 7, scale |-> 50]
    /\ calib.attached

\* ------------------------------------------------- claims C22 to C25
\* C22: a cleanup of device_left that got past release_interface has
\* attempted to re-attach the kernel driver exactly when the arrival of the
\* generation it cleans up had detached one.
C22_ReattachIffDetached ==
    reattach.attempted = reattach.detached

\* the polling context gets the result of the handshake write
HandshakeReturnStep == poll_pc = "hs_io" /\ poll_pc' # "hs_io"

\* C23: connect_initialized changes only in the step in which a handshake
\* write returns Ok, and then to the copied connect_count; a failed handshake
\* write makes read_record return Err with connect_initialized unchanged, and
\* the next read_record that finds the same generation attached sends a
\* handshake before any trigger; connect_initialized never exceeds the
\* connect_count of the session.
C23_InitializedAfterHandshake ==
    [][/\ connect_initialized' # connect_initialized =>
            /\ HandshakeReturnStep
            /\ hsLog'[Len(hsLog')].ok
            /\ connect_initialized' = snap_count
       /\ (HandshakeReturnStep /\ ~hsLog'[Len(hsLog')].ok) =>
            /\ result' = "Err"
            /\ connect_initialized' = connect_initialized
       /\ (/\ InspectStep
           /\ ~poisoned
           /\ hsLog # <<>>
           /\ ~hsLog[Len(hsLog)].ok
           /\ inner.gen = hsLog[Len(hsLog)].gen) =>
            /\ poll_pc' = "hs_io"
            /\ callIO' = <<"handshake">>
       /\ connect_initialized' <= connect_count']_vars

\* C23 witness: the first handshake of a generation failed, the next
\* read_record sent a second one to the same generation, it succeeded and
\* the generation is recorded
C23_Witness ==
    /\ Len(hsLog) = 2
    /\ ~hsLog[1].ok
    /\ hsLog[2].ok
    /\ hsLog[1].gen = hsLog[2].gen
    /\ connect_initialized = hsLog[2].gen
    /\ connect_initialized = connect_count

\* C24: a start time supplied by the caller is pending (start_time is Some)
\* until a handshake frame carrying it has been written successfully or is
\* being written.
C24_StartTimePendingUntilWritten ==
    (parse_start_time(start_arg) = "caller" /\ start_time = "none") =>
        \/ \E i \in 1..Len(hsLog) : hsLog[i].ok /\ hsLog[i].time = "caller"
        \/ poll_pc = "hs_io" /\ hs_time = "caller"

\* C25: read_record has no transfer in flight on a handle whose interface
\* device_left has released.
C25_NoTransferAfterRelease ==
    poll_pc \in {"hs_io", "trig_io", "read_io"} => ~inner.released

\* ----------------------------------------------------- scheduling, fairness
\* the steps of main inside UsbDevice::new
BootStep == StartListener \/ StoreListener

\* the steps of read_record, called for ever by the loop of main
PollStep ==
    \/ PollReadCount
    \/ PollInspect
    \/ PollHandshakeDone
    \/ PollTriggerDone
    \/ PollReadDone

\* the steps of the callbacks, dispatched by the handle_events loop
HotplugStep ==
    \/ DeviceArrivedPrepare
    \/ DeviceArrivedCommit
    \/ DeviceLeftCleanup
    \/ DeviceLeftDetach

\* physical attachments and handshake writes in the behaviours of the fair
\* specification
MaxFairPlugs == 2
MaxFairHandshakes == 2

\* handshake writes issued so far: the recorded ones and the one in flight
HandshakesIssued == Len(hsLog) + (IF poll_pc = "hs_io" THEN 1 ELSE 0)

FairBound == phys <= MaxFairPlugs /\ HandshakesIssued <= MaxFairHandshakes

\* the start time has no part in locking or in the order of the frames
FairInit == Init /\ start_arg = "absent"

FairPlug == Plug /\ FairBound'

FairPollInspect == PollInspect /\ FairBound'

FairNext ==
    \/ StartListener
    \/ StoreListener
    \/ FairPlug
    \/ Unplug
    \/ DeviceArrivedPrepare
    \/ DeviceArrivedCommit
    \/ DeviceLeftCleanup
    \/ DeviceLeftDetach
    \/ PollReadCount
    \/ FairPollInspect
    \/ PollHandshakeDone
    \/ PollTriggerDone
    \/ PollReadDone

\* main runs UsbDevice::new to its end and then polls for ever, a transfer
\* returns after its timeout at the latest, and the event loop dispatches the
\* queued events; the loop of main sleeps with the lock free between two
\* calls, so a callback waiting for the lock gets it (strong fairness)
FairSpec ==
    /\ FairInit
    /\ [][FairNext]_vars
    /\ WF_vars(BootStep)
    /\ WF_vars(PollStep /\ FairBound')
    /\ SF_vars(HotplugStep)

\* read_record is at line 134 and has to send a handshake, but the handshake
\* writes of the fair specification are used up
StoppedByBound ==
    /\ poll_pc = "got_count"
    /\ NeedsHandshake(connect_initialized, snap_count)
    /\ (Len(hsLog) = MaxFairHandshakes \/ Len(hsLog) = MaxHandshakes)

\* the holder of the lock has a step that does not need the lock
HolderCanProceed ==
    CASE lockOwner = "poll" ->
             ENABLED (PollHandshakeDone \/ PollTriggerDone \/ PollReadDone)
      [] lockOwner = "main" ->
             ENABLED (DeviceArrivedPrepare \/ StoreListener)
      [] OTHER -> TRUE

\* a departure event is at the head of the queue and device_left has not
\* taken the lock yet
DeparturePending ==
    hp_pc = "wait" /\ events # <<>> /\ Head(events).type = "left"

\* C26: while the process is alive the holder of the session lock can always
\* take a step that does not need the lock, and every context that is about
\* to lock the session gets past that point: main inside UsbDevice::new
\* (with the arrival callback that register() runs synchronously),
\* device_arrived, device_left (also when the event came while a transfer of
\* a poll was in flight) and read_record at its second lock.
C26_LockEventuallyGranted ==
    /\ [](Alive => HolderCanProceed)
    /\ (boot_pc # "done") ~> (boot_pc = "done" \/ ~Alive)
    /\ (hp_pc = "arrived_ready") ~> (hp_pc = "wait" \/ ~Alive)
    /\ DeparturePending ~> (~DeparturePending \/ ~Alive)
    /\ (hp_pc = "left_cleaned") ~> (hp_pc = "wait" \/ ~Alive)
    /\ (boot_pc = "done" /\ poll_pc = "idle") ~> (poll_pc # "idle" \/ ~Alive)
    /\ (poll_pc = "got_count") ~>
           (poll_pc # "got_count" \/ ~Alive \/ StoppedByBound)

\* C26 witness: the device was present at startup and its arrival callback,
\* running inside register(), is about to lock the session
C26_Witness ==
    /\ boot_pc = "registering"
    /\ hp_pc = "arrived_ready"
    /\ lockOwner = "free"
    /\ connect_count = 0

\* the device of generation g is attached and physically present
Attached(g) ==
    plugged /\ inner.gen = g /\ inner.dev = phys /\ ~inner.released

\* a transfer of read_record returns Ok
HandshakeOk == PollHandshakeDone /\ poll_pc' = "trig_io"

TriggerOk == PollTriggerDone /\ poll_pc' = "read_io"

ReadOk == PollReadDone /\ result' # "Err"

\* a read_record call on the handle of g has returned a classified response
Classified(g) ==
    /\ poll_pc = "idle"
    /\ snap_inner = g
    /\ callIO # <<>>
    /\ callIO[Len(callIO)] = "read"
    /\ result \in {"Temperature", "Other"}

\* C27: for every generation g: if from some point on g stays attached and
\* each kind of transfer succeeds again and again when it is tried, then a
\* handshake frame is written successfully to g, and at that point or later a
\* read_record call on g writes its trigger and classifies a response (or the
\* handshake writes of the fair specification are used up before that).
C27_HandshakeThenResponse ==
    \A g \in 1..MaxFairPlugs :
        (/\ SF_vars(HandshakeOk)
         /\ SF_vars(TriggerOk)
         /\ SF_vars(ReadOk)
         /\ <>[]Attached(g))
            => <>(\/ OkHandshakes(g) >= 1 /\ Classified(g)
                  \/ StoppedByBound)

\* C27 witness: generation 2, created by an arrival after a departure, has
\* got its handshake and a read_record call on it has classified a response
C27_Witness ==
    /\ Attached(2)
    /\ OkHandshakes(2) = 1
    /\ Classified(2)
    /\ connect_initialized = 2

====
